---- MODULE Spec2Model ----
(***************************************************************************)
(* Proposals and their sections: the seven server actions of               *)
(* src/src/actions/index.ts over the two tables of src/db/tables.ts.       *)
(*                                                                         *)
(* A table row and an action input are functions from column / key names   *)
(* to values.  A key that is absent from the domain is JavaScript's        *)
(* undefined on the input side and SQL NULL on the stored side.            *)
(*                                                                         *)
(* A handler runs until it awaits a store call, the store executes the     *)
(* call at some later moment, and the handler runs on, later again, with   *)
(* the rows the call gave back.  In between, the store calls of other      *)
(* invocations execute and the clock advances.  One step of the model      *)
(* reads or writes the tables once, or reads the clock: a store call       *)
(* together with the handler code that only checks its result and throws   *)
(* or returns, or the handler code that reads the clock and builds the     *)
(* next store call.                                                        *)
(***************************************************************************)
EXTENDS Integers, Sequences, FiniteSets, Bags, TLC

VARIABLES
    proposals,    \* the rows of table Proposals (a set: id is the primary key)
    sections,     \* the rows of table ProposalSections, in insertion order
    now,          \* the value new Date() returns
    nextUuid,     \* how many values crypto.randomUUID() has returned
    fkEnforced,   \* whether the engine enforces the declared foreign key
    writes,       \* how many store calls may still change a table
    creator,      \* history: the identity whose call inserted each stored proposal
    saver,        \* history: the identity whose call inserted each stored section
    inflight      \* the invocations suspended at an await, as a bag

vars == <<proposals, sections, now, nextUuid, fkEnforced, writes, creator,
          saver, inflight>>

----------------------------------------------------------------------------
(* Bounds of the model *)

MaxWrites == 3        \* store calls that change a table, in one behaviour
MaxWritesDeep == 4    \* the same, where only a few inputs are sent
MaxClock == 1         \* times the clock advances, in one behaviour
MaxInFlight == 2      \* invocations that await a store call at the same time
MaxUuids == 1         \* proposal ids that crypto.randomUUID() hands out

----------------------------------------------------------------------------
(* Identities and values *)

Users == {"u1", "u2"}
NoUser == "none"                      \* context.locals.user is undefined
Contexts == Users \cup {NoUser}

\* the proposal ids a caller makes up; it can also name every generated id
CallerIds == {"p1"}
Uuid(i) == "uuid" \o ToString(i)

\* the section ids a caller makes up: no insert hands one out
CallerSectionIds == {"s1"}
EmptyString == ""

\* a number as numerator / denominator; the schema wants a positive integer
Num(n, d) == [num |-> n, den |-> d]
IsInt(x) == x.num % x.den = 0
IsPositive(x) == x.num > 0

----------------------------------------------------------------------------
(* Objects and rows as functions over their defined keys *)

Has(obj, k) == k \in DOMAIN obj

\* z.object() keeps the keys of its shape and strips every other key
StripUnknownKeepsAll(obj, shape) == obj
Strip(obj, shape) == [k \in (DOMAIN obj) \cap shape |-> obj[k]]

\* { ...a, ...b }: the keys of b win
Spread(a, b) ==
    [k \in (DOMAIN a) \cup (DOMAIN b) |-> IF k \in DOMAIN b THEN b[k] ELSE a[k]]

\* the object without one key
Without(obj, key) == [k \in (DOMAIN obj) \ {key} |-> obj[k]]

Range(s) == {s[i] : i \in DOMAIN s}


----------------------------------------------------------------------------
(* The request context and the failures an action reports *)

\* requireUser: context.locals?.user, or the UNAUTHORIZED failure
requireUserAcceptsAnyone(ctx) == TRUE
requireUser(ctx) == ctx # NoUser

\* what a call gives back: a thrown ActionError, or the returned object
Thrown(code, message) == [code |-> code, message |-> message]
Returned(data) == Spread([code |-> "OK"], data)

Unauthorized ==
    Thrown("UNAUTHORIZED", "You must be signed in to perform this action.")

\* defineAction parses the input against its schema before it calls the handler
BadRequest == Thrown("BAD_REQUEST", "Failed to validate")

ProposalNotFound == Thrown("NOT_FOUND", "Proposal not found.")
SectionNotFound == Thrown("NOT_FOUND", "Section not found.")

\* a constraint violation raised by the engine surfaces as an internal error
EngineError == Thrown("INTERNAL_SERVER_ERROR", "constraint failed")

----------------------------------------------------------------------------
(* The engine: the queries the handlers issue *)

\* where(and(eq(Proposals.id, id), eq(Proposals.userId, user.id)))
ProposalsOfAnyOwnerWithId(rows, id, userId) == {r \in rows : r.id = id}
ProposalsOfUserWithAnyId(rows, id, userId) == {r \in rows : r.userId = userId}
ProposalsWhereIdAndUser(rows, id, userId) ==
    {r \in rows : r.id = id /\ r.userId = userId}

\* where(eq(Proposals.userId, user.id))
ProposalsWhereUser(rows, userId) == {r \in rows : r.userId = userId}

\* where(eq(ProposalSections.id, id)): a NULL id equals nothing
SectionHasId(row, id) == Has(row, "id") /\ row.id = id

\* where(eq(ProposalSections.proposalId, id))
SectionsWhereProposal(rows, proposalId) ==
    SelectSeq(rows, LAMBDA row : row.proposalId = proposalId)

\* Proposals.id is the primary key: an insert of a stored id is refused
PrimaryKeyUnchecked(rows, id) == TRUE
PrimaryKeyFree(rows, id) == \A r \in rows : r.id # id

\* ProposalSections.proposalId references Proposals.id, no action declared:
\* where the engine enforces it, a referenced proposal cannot be deleted
ReferencedBySection(rows, proposalId) ==
    \E i \in DOMAIN rows : rows[i].proposalId = proposalId

\* ... and a section cannot be inserted, or set, with a proposalId that no
\* stored proposal has
ReferenceMissing(rows, proposalId) == \A r \in rows : r.id # proposalId

\* ... and where it does not, the delete of a proposal leaves the sections
\* that reference it as they are: neither the schema nor the handler cascades
OnDeleteCascade(rows, proposalId) ==
    SelectSeq(rows, LAMBDA row : row.proposalId # proposalId)
OnDeleteNoAction(rows, proposalId) == rows

----------------------------------------------------------------------------
(* The input schemas *)

OptionalFields ==
    {"clientName", "projectName", "currency", "estimatedValue", "status", "notes"}
MutableFields == {"title"} \cup OptionalFields

CreateShape == {"id"} \cup MutableFields
UpdateShape == {"id"} \cup MutableFields
DeleteShape == {"id"}
SaveShape == {"id", "proposalId", "type", "orderIndex", "heading", "content"}
DeleteSectionShape == {"id", "proposalId"}
GetShape == {"id"}

\* title: z.string().min(1)
CreateInputValid(raw) == Has(raw, "title") /\ raw.title # EmptyString

\* id: z.string(), title: z.string().min(1).optional()
UpdateInputValid(raw) ==
    Has(raw, "id") /\ (Has(raw, "title") => raw.title # EmptyString)

\* id: z.string()
IdInputValid(raw) == Has(raw, "id")

\* orderIndex: z.number().int().positive(), content: z.string().min(1)
OrderIndexAcceptsZero(x) == IsInt(x) /\ x.num >= 0
OrderIndexValid(x) == IsInt(x) /\ IsPositive(x)

SaveInputValid(raw) ==
    /\ Has(raw, "proposalId")
    /\ Has(raw, "orderIndex") /\ OrderIndexValid(raw.orderIndex)
    /\ Has(raw, "content") /\ raw.content # EmptyString

DeleteSectionInputValid(raw) == Has(raw, "id") /\ Has(raw, "proposalId")

----------------------------------------------------------------------------
(* The steps of the handlers *)

\* const [row] = await ...returning(): the first row, or undefined
First(key, rows) ==
    IF rows = {} THEN <<>> ELSE [k \in {key} |-> CHOOSE r \in rows : TRUE]

FirstOfSeq(key, rows) ==
    IF rows = <<>> THEN <<>> ELSE [k \in {key} |-> Head(rows)]

\* createProposal: the values of the insert; createdAt and updatedAt are two
\* reads of the clock, the second not before the first
CreateValues(input, user, id, created, updated) ==
    Spread(Strip(input, OptionalFields),
           [id |-> id, userId |-> user, title |-> input.title,
            createdAt |-> created, updatedAt |-> updated])

\* updateProposal: the entries of rest whose value is not undefined
updateData(rest) == [k \in DOMAIN rest |-> rest[k]]

\* Object.keys(updateData).length === 0
NeverNothingToUpdate(data) == FALSE
NothingToUpdate(data) == DOMAIN data = {}

\* updateProposal: .set({ ...updateData, updatedAt: new Date() })
UpdateSet(data, date) == Spread(data, [updatedAt |-> date])

\* update(Proposals).set(set).where(id and userId): the table afterwards
ReplaceProposals(rows, id, userId, set) ==
    {IF r \in ProposalsWhereIdAndUser(rows, id, userId)
        THEN Spread(Strip(r, {"id", "userId", "createdAt"}), set) ELSE r
        : r \in rows}
UpdateProposals(rows, id, userId, set) ==
    {IF r \in ProposalsWhereIdAndUser(rows, id, userId) THEN Spread(r, set) ELSE r
        : r \in rows}

\* ... and the rows it returns
UpdatedProposals(rows, id, userId, set) ==
    {Spread(r, set) : r \in ProposalsWhereIdAndUser(rows, id, userId)}

\* saveSection: baseValues; the engine skips a key whose value is undefined
baseValues(input, date) ==
    Spread(Strip(input, {"proposalId", "type", "orderIndex", "heading", "content"}),
           [createdAt |-> date])

\* if (input.id): undefined and the empty string are both falsy
Truthy(obj, key) == Has(obj, key) /\ obj[key] # EmptyString

\* select().from(ProposalSections).where(eq(ProposalSections.id, id))
SectionsWhereId(rows, id) == SelectSeq(rows, LAMBDA row : SectionHasId(row, id))

\* !existing || existing.proposalId !== input.proposalId
SectionNeverMisses(existing, proposalId) == FALSE
SectionMisses(existing, proposalId) ==
    existing = <<>> \/ Head(existing).proposalId # proposalId

\* update(ProposalSections).set(baseValues).where(eq(ProposalSections.id, id))
UpdateSections(rows, id, set) ==
    [i \in DOMAIN rows |->
        IF SectionHasId(rows[i], id) THEN Spread(rows[i], set) ELSE rows[i]]

\* delete(ProposalSections).where(and(eq(id), eq(proposalId))): the rows it hits
SectionsWhereIdAndProposal(rows, id, proposalId) ==
    SelectSeq(rows, LAMBDA row : SectionHasId(row, id) /\ row.proposalId = proposalId)

SectionsAfterDelete(rows, id, proposalId) ==
    SelectSeq(rows,
        LAMBDA row : ~(SectionHasId(row, id) /\ row.proposalId = proposalId))

----------------------------------------------------------------------------
(* The seven handlers, store call by store call.  defineAction validates   *)
(* the raw input against the schema, strips the keys the schema does not   *)
(* name, and calls the handler.  Each definition below is the outcome of   *)
(* one step in the current state: what the invocation gives back, or that  *)
(* it awaits its next store call and what it holds across the await, and   *)
(* what the tables and the id generator hold afterwards.                   *)

\* the invocation has not returned: it awaits a store call
Awaiting == [code |-> "AWAITING"]

\* no store call is left
Done == <<>>

Outcome(res, newProposals, newSections, uuids, call) ==
    [result |-> res, proposals |-> newProposals, sections |-> newSections,
     nextUuid |-> uuids, next |-> call]

\* a step that throws, or that returns what it has read
Only(res) == Outcome(res, proposals, sections, nextUuid, Done)

\* a step that ends at an await: the invocation holds call across it
Await(call) == Outcome(Awaiting, proposals, sections, nextUuid, call)

\* createProposal up to the await of its insert: the values are built, the
\* clock is read twice, and the insert is handed to the store
createProposalHandler(ctx, raw, later) ==
    LET input == Strip(raw, CreateShape)
        \* input.id ?? crypto.randomUUID()
        generate == ~Has(input, "id")
        id == IF generate THEN Uuid(nextUuid + 1) ELSE input.id
        uuids == IF generate THEN nextUuid + 1 ELSE nextUuid
        row == CreateValues(input, ctx, id, now, later)
    IN  IF ~CreateInputValid(raw) THEN Only(BadRequest)
        ELSE IF ~requireUser(ctx) THEN Only(Unauthorized)
        ELSE Outcome(Awaiting, proposals, sections, uuids,
                     [op |-> "createProposal", await |-> "insert", ctx |-> ctx,
                      values |-> row])

\* insert(Proposals).values(...).returning(), and the return
createProposalInsert(call) ==
    IF ~PrimaryKeyFree(proposals, call.values.id) THEN Only(EngineError)
    ELSE Outcome(Returned([proposal |-> call.values]),
                 proposals \cup {call.values}, sections, nextUuid, Done)

\* updateProposal through its select, executed by the store: the handler
\* throws or returns on a result that leaves nothing to write, and otherwise
\* goes on, once the result is delivered, to read the clock
updateProposalHandler(ctx, raw) ==
    LET input == Strip(raw, UpdateShape)
    IN  IF ~UpdateInputValid(raw) THEN Only(BadRequest)
        ELSE IF ~requireUser(ctx) THEN Only(Unauthorized)
        ELSE LET id == input.id
                 rest == Without(input, "id")
                 existing == ProposalsWhereIdAndUser(proposals, id, ctx)
                 data == updateData(rest)
             IN  IF existing = {} THEN Only(ProposalNotFound)
                 ELSE IF NothingToUpdate(data)
                 THEN Only(Returned(First("proposal", existing)))
                 ELSE Await([op |-> "updateProposal", await |-> "select",
                             ctx |-> ctx, id |-> id, data |-> data])

\* the result of the select is delivered: the update is built with the
\* clock as it is by then, and handed to the store
updateProposalSet(call) ==
    Await([op |-> "updateProposal", await |-> "update", ctx |-> call.ctx,
           id |-> call.id, set |-> UpdateSet(call.data, now)])

\* update(Proposals).set(...).where(...).returning() on the table as it is
\* by then, and the return of the first row the update gives back
updateProposalUpdate(call) ==
    Outcome(Returned(First("proposal",
                UpdatedProposals(proposals, call.id, call.ctx, call.set))),
            UpdateProposals(proposals, call.id, call.ctx, call.set),
            sections, nextUuid, Done)

listProposalsHandler(ctx) ==
    IF ~requireUser(ctx) THEN Only(Unauthorized)
    ELSE Only(Returned([proposals |-> ProposalsWhereUser(proposals, ctx)]))

deleteProposalHandler(ctx, raw) ==
    LET input == Strip(raw, DeleteShape)
    IN  IF ~IdInputValid(raw) THEN Only(BadRequest)
        ELSE IF ~requireUser(ctx) THEN Only(Unauthorized)
        ELSE LET deleted == ProposalsWhereIdAndUser(proposals, input.id, ctx)
             IN  IF deleted = {} THEN Only(ProposalNotFound)
                 ELSE IF fkEnforced /\ ReferencedBySection(sections, input.id)
                 THEN Only(EngineError)
                 ELSE Outcome(Returned(First("proposal", deleted)),
                              proposals \ deleted,
                              OnDeleteNoAction(sections, input.id),
                              nextUuid, Done)

\* saveSection through the select of the proposal, executed by the store
saveSectionHandler(ctx, raw) ==
    LET input == Strip(raw, SaveShape)
    IN  IF ~SaveInputValid(raw) THEN Only(BadRequest)
        ELSE IF ~requireUser(ctx) THEN Only(Unauthorized)
        ELSE LET proposal == ProposalsWhereIdAndUser(proposals, input.proposalId, ctx)
             IN  IF proposal = {} THEN Only(ProposalNotFound)
                 ELSE Await([op |-> "saveSection", await |-> "proposal",
                             ctx |-> ctx, input |-> input])

\* the result of that select is delivered: baseValues is built with the
\* clock as it is by then, and the select of the section, or the insert, is
\* handed to the store
saveSectionValues(call) ==
    LET values == baseValues(call.input, now)
    IN  IF Truthy(call.input, "id")
        THEN Await([op |-> "saveSection", await |-> "select", ctx |-> call.ctx,
                    id |-> call.input.id, values |-> values])
        ELSE Await([op |-> "saveSection", await |-> "insert", ctx |-> call.ctx,
                    values |-> values])

\* select().from(ProposalSections).where(eq(id)).limit(1), and the check
saveSectionSelect(call) ==
    IF SectionMisses(SectionsWhereId(sections, call.id), call.values.proposalId)
    THEN Only(SectionNotFound)
    ELSE Await([call EXCEPT !.await = "update"])

\* update(ProposalSections).set(baseValues).where(eq(id)).returning(), and
\* the return of the first row the update gives back
saveSectionUpdate(call) ==
    LET hit == SectionsWhereId(sections, call.id)
        updated == UpdateSections(sections, call.id, call.values)
    IN  IF fkEnforced /\ hit # <<>>
            /\ ReferenceMissing(proposals, call.values.proposalId)
        THEN Only(EngineError)
        ELSE Outcome(Returned(FirstOfSeq("section", SectionsWhereId(updated, call.id))),
                     proposals, updated, nextUuid, Done)

\* insert(ProposalSections).values(baseValues).returning(): the handler
\* passes no id and the column declares no default, so the row is stored
\* and returned with a NULL id
saveSectionInsert(call) ==
    IF fkEnforced /\ ReferenceMissing(proposals, call.values.proposalId)
    THEN Only(EngineError)
    ELSE Outcome(Returned([section |-> call.values]), proposals,
                 Append(sections, call.values), nextUuid, Done)

\* deleteSection through the select of the proposal
deleteSectionHandler(ctx, raw) ==
    LET input == Strip(raw, DeleteSectionShape)
    IN  IF ~DeleteSectionInputValid(raw) THEN Only(BadRequest)
        ELSE IF ~requireUser(ctx) THEN Only(Unauthorized)
        ELSE IF ProposalsWhereIdAndUser(proposals, input.proposalId, ctx) = {}
        THEN Only(ProposalNotFound)
        ELSE Await([op |-> "deleteSection", await |-> "delete", ctx |-> ctx,
                    id |-> input.id, proposalId |-> input.proposalId])

\* delete(ProposalSections).where(and(eq(id), eq(proposalId))).returning()
deleteSectionDelete(call) ==
    LET deleted == SectionsWhereIdAndProposal(sections, call.id, call.proposalId)
    IN  IF deleted = <<>> THEN Only(SectionNotFound)
        ELSE Outcome(Returned(FirstOfSeq("section", deleted)), proposals,
                     SectionsAfterDelete(sections, call.id, call.proposalId),
                     nextUuid, Done)

\* getProposalWithSections through the select of the proposal
getProposalWithSectionsHandler(ctx, raw) ==
    LET input == Strip(raw, GetShape)
    IN  IF ~IdInputValid(raw) THEN Only(BadRequest)
        ELSE IF ~requireUser(ctx) THEN Only(Unauthorized)
        ELSE LET proposal == ProposalsWhereIdAndUser(proposals, input.id, ctx)
             IN  IF proposal = {} THEN Only(ProposalNotFound)
                 ELSE Await([op |-> "getProposalWithSections", await |-> "select",
                             ctx |-> ctx, id |-> input.id,
                             proposal |-> First("proposal", proposal).proposal])

\* select().from(ProposalSections).where(eq(proposalId, input.id)), and the
\* return of the proposal read before with the sections read now
getProposalWithSectionsSelect(call) ==
    Only(Returned([proposal |-> call.proposal,
                   sections |-> SectionsWhereProposal(sections, call.id)]))

----------------------------------------------------------------------------
(* The actions: one step of one invocation, applied to the state *)

Ids(rows) == {r.id : r \in rows}

\* the place of the first row of old that new has not kept in its place
FirstGone(old, new) ==
    CHOOSE i \in DOMAIN old :
        /\ i > Len(new) \/ new[i] # old[i]
        /\ \A j \in 1..(i - 1) : new[j] = old[j]

WithoutIndex(s, i) == [j \in 1..(Len(s) - 1) |-> IF j < i THEN s[j] ELSE s[j + 1]]

\* the inserting identities, place by place, of the sections after a step
\* that appends one row, removes one row, or changes rows in place
Savers(ctx, old, new) ==
    IF Len(new) > Len(old) THEN Append(saver, ctx)
    ELSE IF Len(new) < Len(old) THEN WithoutIndex(saver, FirstGone(old, new))
    ELSE saver

\* the invocations suspended at an await
Pending(call) == IF call = Done THEN EmptyBag ELSE SetToBag({call})
InFlight == BagToSet(inflight)
Awaits(op, await) == {call \in InFlight : call.op = op /\ call.await = await}

\* the tables, the id generator, the histories and the invocations in flight
\* after a step of the invocation of ctx that awaited call, or that begins
\* when call is Done
Commit(ctx, call, outcome) ==
    \E o \in {outcome} :
        LET changed == o.proposals # proposals \/ o.sections # sections
            flying == (inflight (-) Pending(call)) (+) Pending(o.next)
        IN  /\ changed => writes > 0
            /\ BagCardinality(flying) <= MaxInFlight
            /\ proposals' = o.proposals
            /\ sections' = o.sections
            /\ nextUuid' = o.nextUuid
            /\ writes' = IF changed THEN writes - 1 ELSE writes
            /\ creator' = {c \in creator : c[1] \in Ids(o.proposals)}
                    \cup {<<id, ctx>> : id \in Ids(o.proposals) \ Ids(proposals)}
            /\ saver' = Savers(ctx, sections, o.sections)
            /\ inflight' = flying
            /\ UNCHANGED fkEnforced

\* a step that reads the clock once, or not at all
Step(ctx, call, outcome) == Commit(ctx, call, outcome) /\ UNCHANGED now

\* the second read of the clock falls at later
createProposal(ctx, raw, later) ==
    Commit(ctx, Done, createProposalHandler(ctx, raw, later)) /\ now' = later
createProposalThenInsert(call) == Step(call.ctx, call, createProposalInsert(call))

updateProposal(ctx, raw) == Step(ctx, Done, updateProposalHandler(ctx, raw))
updateProposalThenSet(call) == Step(call.ctx, call, updateProposalSet(call))
updateProposalThenUpdate(call) == Step(call.ctx, call, updateProposalUpdate(call))

listProposals(ctx) == Step(ctx, Done, listProposalsHandler(ctx))

deleteProposal(ctx, raw) == Step(ctx, Done, deleteProposalHandler(ctx, raw))

saveSection(ctx, raw) == Step(ctx, Done, saveSectionHandler(ctx, raw))
saveSectionThenValues(call) == Step(call.ctx, call, saveSectionValues(call))
saveSectionThenSelect(call) == Step(call.ctx, call, saveSectionSelect(call))
saveSectionThenInsert(call) == Step(call.ctx, call, saveSectionInsert(call))

deleteSection(ctx, raw) == Step(ctx, Done, deleteSectionHandler(ctx, raw))
deleteSectionThenDelete(call) == Step(call.ctx, call, deleteSectionDelete(call))

getProposalWithSections(ctx, raw) ==
    Step(ctx, Done, getProposalWithSectionsHandler(ctx, raw))
getProposalWithSectionsThenSelect(call) ==
    Step(call.ctx, call, getProposalWithSectionsSelect(call))

\* time passes between two steps
Tick ==
    /\ now < MaxClock
    /\ now' = now + 1
    /\ UNCHANGED <<proposals, sections, nextUuid, fkEnforced, writes, creator, saver,
                   inflight>>

\* the clock at the second of two reads in a row
Laters == {t \in now..MaxClock : t <= now + 1}

----------------------------------------------------------------------------
(* The inputs a caller sends *)

NoKeys == <<>>

\* the proposal ids a caller can name: its own choices and the ids
\* generated so far
KnownProposalIds == CallerIds \cup {Uuid(i) : i \in 1..nextUuid}

WithId(ids) == {[id |-> i] : i \in ids}
WithProposalId == {[proposalId |-> q] : q \in KnownProposalIds}

\* a key outside every schema
ExtraKey == [userId |-> "u2"]

\* a title, two optional fields supplied and four omitted
Drafted == [title |-> "t1", clientName |-> "a", status |-> "a"]

\* an input without an id, as long as ids are left to generate
Generating == IF nextUuid < MaxUuids THEN {NoKeys} ELSE {}

\* with and without an id, with and without a foreign key; and with the
\* empty title the schema refuses
CreateInputs ==
    {Spread(i, b) : i \in Generating \cup WithId(KnownProposalIds),
                    b \in {Drafted, Spread(Drafted, ExtraKey)}}
    \cup {[title |-> EmptyString]}

\* no field, one field, two fields, a field and a foreign key; and the inputs
\* the schema refuses: no id, an empty title
Patches ==
    {NoKeys, [title |-> "t2"], [status |-> "b", estimatedValue |-> 2500],
     Spread([title |-> "t2"], ExtraKey)}

UpdateInputs ==
    {Spread(i, p) : i \in WithId(KnownProposalIds), p \in Patches}
    \cup {[title |-> "t2"], [id |-> "p1", title |-> EmptyString]}

IdInputs == {NoKeys} \cup WithId(KnownProposalIds)

SectionBodies ==
    {[orderIndex |-> Num(1, 1), content |-> "c1"],
     [orderIndex |-> Num(2, 1), content |-> "c2", type |-> "scope", heading |-> "h"]}

\* the bodies the schema refuses: no content, an order index that is zero,
\* negative, or no integer
RefusedBodies ==
    {[orderIndex |-> Num(1, 1), content |-> EmptyString],
     [orderIndex |-> Num(0, 1), content |-> "c1"],
     [orderIndex |-> Num(0 - 1, 1), content |-> "c1"],
     [orderIndex |-> Num(3, 2), content |-> "c1"]}

SaveInputs ==
    {Spread(Spread(i, p), b)
        : i \in {NoKeys} \cup WithId(CallerSectionIds \cup {EmptyString}),
          p \in WithProposalId, b \in SectionBodies}
    \cup {Spread([proposalId |-> "p1"], b) : b \in RefusedBodies}
    \cup {[orderIndex |-> Num(1, 1), content |-> "c1"]}

DeleteSectionInputs ==
    {Spread(i, p) : i \in WithId(CallerSectionIds), p \in WithProposalId}
    \cup WithId(CallerSectionIds) \cup WithProposalId

----------------------------------------------------------------------------
(* The specifications *)

\* an empty store, and a number of store calls that may change a table
InitWith(budget) ==
    /\ proposals = {}
    /\ sections = <<>>
    /\ now = 0
    /\ nextUuid = 0
    /\ fkEnforced \in BOOLEAN
    /\ writes = budget
    /\ creator = {}
    /\ saver = <<>>
    /\ inflight = EmptyBag

Init == InitWith(MaxWrites)

\* Every step of every handler, while the clock stands still.  The update of
\* saveSection is no step of it: the handler awaits that update only after
\* its select has found a section with the input's id, and no insert stores
\* a section with an id.
Next ==
    \/ \E ctx \in Contexts, raw \in CreateInputs : createProposal(ctx, raw, now)
    \/ \E call \in Awaits("createProposal", "insert") : createProposalThenInsert(call)
    \/ \E ctx \in Contexts, raw \in UpdateInputs : updateProposal(ctx, raw)
    \/ \E call \in Awaits("updateProposal", "select") : updateProposalThenSet(call)
    \/ \E call \in Awaits("updateProposal", "update") : updateProposalThenUpdate(call)
    \/ \E ctx \in Contexts : listProposals(ctx)
    \/ \E ctx \in Contexts, raw \in IdInputs : deleteProposal(ctx, raw)
    \/ \E ctx \in Contexts, raw \in SaveInputs : saveSection(ctx, raw)
    \/ \E call \in Awaits("saveSection", "proposal") : saveSectionThenValues(call)
    \/ \E call \in Awaits("saveSection", "select") : saveSectionThenSelect(call)
    \/ \E call \in Awaits("saveSection", "insert") : saveSectionThenInsert(call)
    \/ \E ctx \in Contexts, raw \in DeleteSectionInputs : deleteSection(ctx, raw)
    \/ \E call \in Awaits("deleteSection", "delete") : deleteSectionThenDelete(call)
    \/ \E ctx \in Contexts, raw \in IdInputs : getProposalWithSections(ctx, raw)
    \/ \E call \in Awaits("getProposalWithSections", "select") :
            getProposalWithSectionsThenSelect(call)

Spec == Init /\ [][Next]_vars

\* The handlers of the proposals, while the clock advances between any two
\* steps and between the two reads of createProposal
TimedNext ==
    \/ \E ctx \in Contexts, raw \in CreateInputs, later \in Laters :
            createProposal(ctx, raw, later)
    \/ \E call \in Awaits("createProposal", "insert") : createProposalThenInsert(call)
    \/ \E ctx \in Contexts, raw \in UpdateInputs : updateProposal(ctx, raw)
    \/ \E call \in Awaits("updateProposal", "select") : updateProposalThenSet(call)
    \/ \E call \in Awaits("updateProposal", "update") : updateProposalThenUpdate(call)
    \/ \E ctx \in Contexts : listProposals(ctx)
    \/ \E ctx \in Contexts, raw \in IdInputs : deleteProposal(ctx, raw)
    \/ \E ctx \in Contexts, raw \in IdInputs : getProposalWithSections(ctx, raw)
    \/ \E call \in Awaits("getProposalWithSections", "select") :
            getProposalWithSectionsThenSelect(call)
    \/ Tick

TimedSpec == Init /\ [][TimedNext]_vars

\* One more write, of callers that choose the proposal id themselves, insert
\* sections, delete proposals and read them back, while the clock advances
ReuseInputs == {Spread(i, Drafted) : i \in WithId(CallerIds)}
InsertInputs == {Spread(p, b) : p \in WithProposalId, b \in SectionBodies}

ReuseNext ==
    \/ \E ctx \in Users, raw \in ReuseInputs, later \in Laters :
            createProposal(ctx, raw, later)
    \/ \E call \in Awaits("createProposal", "insert") : createProposalThenInsert(call)
    \/ \E ctx \in Users, raw \in IdInputs : deleteProposal(ctx, raw)
    \/ \E ctx \in Users, raw \in InsertInputs : saveSection(ctx, raw)
    \/ \E call \in Awaits("saveSection", "proposal") : saveSectionThenValues(call)
    \/ \E call \in Awaits("saveSection", "insert") : saveSectionThenInsert(call)
    \/ \E ctx \in Users, raw \in IdInputs : getProposalWithSections(ctx, raw)
    \/ \E call \in Awaits("getProposalWithSections", "select") :
            getProposalWithSectionsThenSelect(call)
    \/ Tick

ReuseSpec == InitWith(MaxWritesDeep) /\ [][ReuseNext]_vars

----------------------------------------------------------------------------
(* What the claims speak about *)

\* P(valid, raw, o) holds of every invocation of one operation an identity
\* can make in the current state, taken up to its first await: valid says
\* whether the schema accepts the input raw, o is the outcome of the step
EveryCreate(ctx, P(_, _, _)) ==
    \A raw \in CreateInputs, later \in Laters :
        \A o \in {createProposalHandler(ctx, raw, later)} :
            P(CreateInputValid(raw), raw, o)

EveryUpdate(ctx, P(_, _, _)) ==
    \A raw \in UpdateInputs : \A o \in {updateProposalHandler(ctx, raw)} :
        P(UpdateInputValid(raw), raw, o)

EveryList(ctx, P(_, _, _)) ==
    \A o \in {listProposalsHandler(ctx)} : P(TRUE, NoKeys, o)

EveryDelete(ctx, P(_, _, _)) ==
    \A raw \in IdInputs : \A o \in {deleteProposalHandler(ctx, raw)} :
        P(IdInputValid(raw), raw, o)

EverySave(ctx, P(_, _, _)) ==
    \A raw \in SaveInputs : \A o \in {saveSectionHandler(ctx, raw)} :
        P(SaveInputValid(raw), raw, o)

EveryDeleteSection(ctx, P(_, _, _)) ==
    \A raw \in DeleteSectionInputs : \A o \in {deleteSectionHandler(ctx, raw)} :
        P(DeleteSectionInputValid(raw), raw, o)

EveryGet(ctx, P(_, _, _)) ==
    \A raw \in IdInputs : \A o \in {getProposalWithSectionsHandler(ctx, raw)} :
        P(IdInputValid(raw), raw, o)

\* ... and of every invocation of any of the seven operations
EveryCall(ctx, P(_, _, _)) ==
    /\ EveryCreate(ctx, P)
    /\ EveryUpdate(ctx, P)
    /\ EveryList(ctx, P)
    /\ EveryDelete(ctx, P)
    /\ EverySave(ctx, P)
    /\ EveryDeleteSection(ctx, P)
    /\ EveryGet(ctx, P)

\* the outcome of the step that an invocation in flight goes on with
Resumed(call) ==
    CASE call.op = "createProposal" -> createProposalInsert(call)
      [] call.op = "updateProposal" /\ call.await = "select" -> updateProposalSet(call)
      [] call.op = "updateProposal" /\ call.await = "update" ->
            updateProposalUpdate(call)
      [] call.op = "deleteSection" -> deleteSectionDelete(call)
      [] call.op = "getProposalWithSections" -> getProposalWithSectionsSelect(call)
      [] call.op = "saveSection" /\ call.await = "proposal" -> saveSectionValues(call)
      [] call.op = "saveSection" /\ call.await = "select" -> saveSectionSelect(call)
      [] call.op = "saveSection" /\ call.await = "update" -> saveSectionUpdate(call)
      [] call.op = "saveSection" /\ call.await = "insert" -> saveSectionInsert(call)

\* Q(call, o) holds of every invocation in flight: o is the outcome of its
\* next step, taken in the current state
EveryResumed(Q(_, _)) ==
    \A call \in InFlight : \A o \in {Resumed(call)} : Q(call, o)

\* ... and of those that await one store call of one operation
EveryAwaited(op, await, Q(_, _)) ==
    \A call \in Awaits(op, await) : \A o \in {Resumed(call)} : Q(call, o)

\* the step leaves both tables as they are
Untouched(o) == o.proposals = proposals /\ o.sections = sections

\* the step ends the invocation with no store call executed
Refused(o, failure) == o.result = failure /\ o.next = Done /\ Untouched(o)

\* the identity whose createProposal call inserted the stored proposal id
CreatedBy(id, u) == <<id, u>> \in creator
CreatedByOther(id, u) == \E c \in creator : c[1] = id /\ c[2] # u

\* the proposals a step gives back
ReturnedProposals(res) ==
    (IF Has(res, "proposal") THEN {res.proposal} ELSE {})
    \cup (IF Has(res, "proposals") THEN res.proposals ELSE {})

----------------------------------------------------------------------------
(* C1 *)

\* the stored proposals that another identity than u created
ProposalsOfOthers(u) == {r \in proposals : CreatedByOther(r.id, u)}

\* none of them is given back, and all of them stay as they are
NoneOfOthers(u, o) ==
    /\ ReturnedProposals(o.result) \cap ProposalsOfOthers(u) = {}
    /\ \A p \in ReturnedProposals(o.result) : p.userId = u
    /\ ProposalsOfOthers(u) \subseteq o.proposals

HidesOthers(u, valid, raw, o) ==
    /\ NoneOfOthers(u, o)
    /\ (valid /\ CreatedByOther(raw.id, u)) => Refused(o, ProposalNotFound)

\* C1: a proposal created by one identity is in no result of listProposals,
\* getProposalWithSections, updateProposal or deleteProposal invoked by
\* another identity, at whatever store call of the invocation the result is
\* made; and an invocation of updateProposal, deleteProposal or
\* getProposalWithSections by another identity that names the proposal's id,
\* with an input the schema accepts, fails with NOT_FOUND "Proposal not
\* found." at its first store call and leaves both tables as they are.
C1_OwnerIsolation ==
    \A u \in Users :
        /\ EveryList(u, LAMBDA valid, raw, o : NoneOfOthers(u, o))
        /\ EveryGet(u, LAMBDA valid, raw, o : HidesOthers(u, valid, raw, o))
        /\ EveryUpdate(u, LAMBDA valid, raw, o : HidesOthers(u, valid, raw, o))
        /\ EveryDelete(u, LAMBDA valid, raw, o : HidesOthers(u, valid, raw, o))
        /\ EveryAwaited("updateProposal", "update",
              LAMBDA call, o : call.ctx = u => NoneOfOthers(u, o))
        /\ EveryAwaited("getProposalWithSections", "select",
              LAMBDA call, o : call.ctx = u => NoneOfOthers(u, o))

\* a proposal of one identity is stored under an id that another identity
\* had when its update passed the select; that update, still in flight, hits
\* no row, and a new update by that identity is refused as not found
C1_Witness ==
    \E c \in creator : \E call \in Awaits("updateProposal", "update") :
        /\ call.id = c[1] /\ call.ctx # c[2]
        /\ ~Has(updateProposalUpdate(call).result, "proposal")
        /\ updateProposalHandler(call.ctx, [id |-> c[1], title |-> "t2"]).result
              = ProposalNotFound

----------------------------------------------------------------------------
(* C2 *)

\* C2 as stated: every invocation without an identity fails with
\* UNAUTHORIZED, whatever the input, before any store call, and leaves both
\* tables as they are.
C2_UnauthorizedForEveryInput ==
    EveryCall(NoUser, LAMBDA valid, raw, o : Refused(o, Unauthorized))

\* C2, amended: an invocation without an identity ends before any store call
\* and leaves both tables as they are; it fails with UNAUTHORIZED when its
\* input satisfies the action's schema, and with the validation failure
\* BAD_REQUEST when it does not.
C2_UnauthorizedForValidInput ==
    EveryCall(NoUser, LAMBDA valid, raw, o :
        Refused(o, IF valid THEN Unauthorized ELSE BadRequest))

\* both tables hold rows, and an invocation without an identity that names a
\* stored proposal, or a section id under it, is refused as unauthorized
C2_Witness ==
    \E r \in proposals : \E i \in DOMAIN sections :
        /\ sections[i].proposalId = r.id
        /\ Refused(deleteProposalHandler(NoUser, [id |-> r.id]), Unauthorized)
        /\ \A id \in CallerSectionIds :
              Refused(deleteSectionHandler(NoUser, [id |-> id, proposalId |-> r.id]),
                      Unauthorized)

----------------------------------------------------------------------------
(* C3 *)

\* C3: saveSection and deleteSection, invoked with an input the schema
\* accepts by an identity that created no stored proposal with the input's
\* proposalId, fail with NOT_FOUND "Proposal not found." at their first
\* store call, the select of the proposal: no store call on the sections is
\* issued and both tables stay as they are, whatever section id the input
\* carries.
NeedsOwnedProposal(u, valid, raw, o) ==
    (valid /\ ~CreatedBy(raw.proposalId, u)) => Refused(o, ProposalNotFound)

C3_SectionNeedsOwnedProposal ==
    \A u \in Users :
        /\ EverySave(u, LAMBDA valid, raw, o : NeedsOwnedProposal(u, valid, raw, o))
        /\ EveryDeleteSection(u,
              LAMBDA valid, raw, o : NeedsOwnedProposal(u, valid, raw, o))

\* a section is stored under one identity's proposal, and another identity's
\* save and delete under that proposal, with or without a section id, are
\* refused
C3_Witness ==
    \E i \in DOMAIN sections : \E u \in Users :
        /\ CreatedByOther(sections[i].proposalId, u)
        /\ Refused(saveSectionHandler(u,
              [proposalId |-> sections[i].proposalId,
               orderIndex |-> Num(1, 1), content |-> "c1"]), ProposalNotFound)
        /\ \A id \in CallerSectionIds :
              /\ Refused(saveSectionHandler(u,
                    [id |-> id, proposalId |-> sections[i].proposalId,
                     orderIndex |-> Num(1, 1), content |-> "c1"]), ProposalNotFound)
              /\ Refused(deleteSectionHandler(u,
                    [id |-> id, proposalId |-> sections[i].proposalId]),
                    ProposalNotFound)

----------------------------------------------------------------------------
(* C4 *)

\* a section id outside those the callers send
NoSuchSection == "s0"

\* every stored section, known by its place since it has no id, is still
\* stored in its place under the same proposalId
SameParents(old, new) ==
    \A i \in DOMAIN old :
        i \in DOMAIN new /\ new[i].proposalId = old[i].proposalId

----------------------------------------------------------------------------
(* C5 *)

\* C5: in every reachable state every stored section has a proposalId that is
\* the id of a stored proposal.
C5_NoOrphanSections ==
    \A i \in DOMAIN sections : sections[i].proposalId \in Ids(proposals)

----------------------------------------------------------------------------
(* C6 *)

\* C6: a deleteProposal invocation that succeeds removes exactly the one
\* stored proposal with the input's id and the caller as owner, returns that
\* row as it was, and leaves every other proposal and every section (those
\* that reference the deleted id too) as they are.
C6_DeleteProposalFrame ==
    \A u \in Users :
        EveryDelete(u, LAMBDA valid, raw, o :
            o.result.code = "OK"
                => \E r \in proposals :
                      /\ r.id = raw.id /\ r.userId = u /\ CreatedBy(r.id, u)
                      /\ o.result = Returned([proposal |-> r])
                      /\ o.next = Done
                      /\ o.proposals = proposals \ {r}
                      /\ o.sections = sections)

\* a proposal with a section under it is stored, and its owner's delete of it
\* succeeds
C6_Witness ==
    \E r \in proposals : \E i \in DOMAIN sections :
        /\ sections[i].proposalId = r.id
        /\ deleteProposalHandler(r.userId, [id |-> r.id]).result.code = "OK"

----------------------------------------------------------------------------
(* C7 *)

\* C7: updateProposal by the owner with an input that carries the id alone
\* returns the stored row as it is after its select and issues no update:
\* updatedAt and every other column stay as they are.
C7_EmptyUpdateWritesNothing ==
    \A r \in proposals :
        Refused(updateProposalHandler(r.userId, [id |-> r.id]),
                Returned([proposal |-> r]))

\* a proposal last written before the current time is stored, and its owner's
\* update with the id alone returns it with that earlier updatedAt
C7_Witness ==
    \E r \in proposals :
        /\ r.updatedAt < now
        /\ updateProposalHandler(r.userId, [id |-> r.id]).result.proposal.updatedAt
              = r.updatedAt

----------------------------------------------------------------------------
(* C8 *)

\* the stored proposals keep createdAt and do not go back in updatedAt
TimestampsKept(old, new) ==
    \A r \in old, r2 \in new :
        r.id = r2.id
            => r2.createdAt = r.createdAt /\ r2.updatedAt >= r.updatedAt

\* C8: the update of an updateProposal invocation that supplies at least one
\* field stores and returns the row with updatedAt at a time the invocation
\* read from the clock, which is not before the updatedAt the row had; and no
\* store call of any of the seven operations lowers the updatedAt or changes
\* the createdAt of a stored proposal.
C8_UpdatedAtAdvances ==
    /\ EveryAwaited("updateProposal", "update", LAMBDA call, o :
          \A r \in ProposalsWhereIdAndUser(proposals, call.id, call.ctx) :
              /\ o.result.code = "OK"
              /\ o.result.proposal \in o.proposals
              /\ o.result.proposal.updatedAt <= now
              /\ o.result.proposal.updatedAt >= r.updatedAt)
    /\ \A ctx \in Contexts :
          EveryCall(ctx, LAMBDA valid, raw, o :
              TimestampsKept(proposals, o.proposals))
    /\ EveryResumed(LAMBDA call, o : TimestampsKept(proposals, o.proposals))

----------------------------------------------------------------------------
(* C9 *)

\* the row p is the row r with the supplied mutable fields at their supplied
\* values and the omitted ones as they were
Patched(r, data, p) ==
    \A f \in MutableFields :
        IF Has(data, f)
        THEN Has(p, f) /\ p[f] = data[f]
        ELSE (Has(p, f) <=> Has(r, f)) /\ (Has(r, f) => p[f] = r[f])

\* C9: an updateProposal invocation that succeeds returns and stores a row in
\* which every supplied field has the supplied value and every omitted
\* mutable field (title, clientName, projectName, currency, estimatedValue,
\* status, notes) has the value it had; id and owner are as they were and no
\* other proposal is changed.
C9_PatchSemantics ==
    EveryAwaited("updateProposal", "update", LAMBDA call, o :
        o.result.code = "OK"
            => /\ Has(o.result, "proposal")
               /\ \E r \in proposals : \E p \in {o.result.proposal} :
                      /\ r.id = call.id /\ p.id = r.id /\ p.userId = r.userId
                      /\ Patched(r, call.set, p)
                      /\ o.proposals = (proposals \ {r}) \cup {p})

----------------------------------------------------------------------------
(* C10 *)

\* the stored proposals keep their owner
OwnersKept(old, new) ==
    \A r \in old, r2 \in new : r.id = r2.id => r2.userId = r.userId

\* C10: createProposal builds its row with the caller as owner, whatever the
\* input carries, and its insert stores and returns that row; no store call
\* of any of the seven operations changes the owner of a stored proposal;
\* and in every reachable state the owner of each stored proposal is the
\* identity whose invocation created it.
C10_OwnerIsCreator ==
    /\ \A r \in proposals : CreatedBy(r.id, r.userId)
    /\ \A u \in Users :
          EveryCreate(u, LAMBDA valid, raw, o :
              valid => o.result = Awaiting /\ o.next.values.userId = u)
    /\ EveryAwaited("createProposal", "insert", LAMBDA call, o :
          o.result.code = "OK"
              => /\ o.result.proposal.userId = call.ctx
                 /\ o.result.proposal \in o.proposals)
    /\ \A ctx \in Contexts :
          EveryCall(ctx, LAMBDA valid, raw, o : OwnersKept(proposals, o.proposals))
    /\ EveryResumed(LAMBDA call, o : OwnersKept(proposals, o.proposals))

\* a proposal whose title an update has changed still has its creator as
\* owner, and a create invocation by u1 whose input names u2 as userId
\* awaits the insert of a proposal of u1
C10_Witness ==
    /\ \E r \in proposals : r.title = "t2" /\ CreatedBy(r.id, r.userId)
    /\ \E call \in Awaits("createProposal", "insert") :
          /\ call.ctx = "u1" /\ call.values.userId = "u1"
          /\ \E later \in Laters :
                createProposalHandler("u1",
                    Spread([id |-> call.values.id], Spread(Drafted, ExtraKey)),
                    later).next = call
          /\ createProposalInsert(call).result.code = "OK"

----------------------------------------------------------------------------
(* C11 *)

StoredSectionIds == {sections[i].id : i \in {j \in DOMAIN sections : Has(sections[j], "id")}}

\* the identity owns a stored proposal with the id
Owns(u, proposalId) == ProposalsWhereIdAndUser(proposals, proposalId, u) # {}

\* C11: saveSection by an identity that owns the input's proposalId, with an
\* input the schema accepts that carries no id, passes the select of the
\* proposal and, once the result is delivered, goes on to its insert; and
\* the insert, while the identity owns the proposal, appends exactly one
\* section and returns it, with an id that no stored section has, with the
\* input's proposalId, and with createdAt at the time the invocation read.
C11_InsertGeneratesFreshId ==
    /\ \A r \in proposals :
          EverySave(r.userId, LAMBDA valid, raw, o :
              (valid /\ ~Has(raw, "id") /\ raw.proposalId = r.id)
                  => /\ o.result = Awaiting /\ Untouched(o)
                     /\ o.next.await = "proposal")
    /\ EveryAwaited("saveSection", "proposal", LAMBDA call, o :
          ~Has(call.input, "id")
              => /\ o.result = Awaiting /\ Untouched(o)
                 /\ o.next.await = "insert"
                 /\ o.next.values.proposalId = call.input.proposalId
                 /\ o.next.values.createdAt = now)
    /\ EveryAwaited("saveSection", "insert", LAMBDA call, o :
          Owns(call.ctx, call.values.proposalId)
              => /\ o.result.code = "OK"
                 /\ o.proposals = proposals
                 /\ o.sections = Append(sections, o.result.section)
                 /\ o.result.section.proposalId = call.values.proposalId
                 /\ o.result.section.createdAt = call.values.createdAt
                 /\ Has(o.result.section, "id")
                 /\ o.result.section.id \notin StoredSectionIds)

----------------------------------------------------------------------------
(* C12 *)

\* the stored sections with the id
StoredSections(id) == {r \in Range(sections) : SectionHasId(r, id)}

\* the row has the input's value for the field, and no value where the input
\* has none
Overwritten(row, values, f) ==
    IF Has(values, f) THEN Has(row, f) /\ row[f] = values[f] ELSE ~Has(row, f)

\* the owner of a stored section's proposal can name the section: it has an
\* id, and the owner's saveSection with that id and the section's proposalId
\* passes the select of the proposal and the select of the section and
\* awaits its update
SavedAgainById ==
    \A i \in DOMAIN sections, u \in Users, body \in SectionBodies :
        Owns(u, sections[i].proposalId)
            => /\ Has(sections[i], "id")
               /\ \E o1 \in {saveSectionHandler(u,
                        Spread([id |-> sections[i].id,
                                proposalId |-> sections[i].proposalId], body))} :
                      /\ o1.result = Awaiting
                      /\ \E o2 \in {saveSectionValues(o1.next)} :
                            /\ o2.result = Awaiting /\ o2.next.await = "select"
                            /\ \E o3 \in {saveSectionSelect(o2.next)} :
                                  o3.result = Awaiting /\ o3.next.await = "update"

\* C12: saveSection by the owner with the id and the proposalId of a stored
\* section goes on to its update, and the update, on a stored section with
\* the input's id and proposalId, stores and returns that section with the
\* input's type, orderIndex, heading and content (no type or heading where
\* the input has none), createdAt at the time the invocation read, and the
\* id and proposalId it had; every other section stays as it is.
C12_SaveOverwritesSection ==
    /\ SavedAgainById
    /\ EveryAwaited("saveSection", "update", LAMBDA call, o :
          \A old \in StoredSections(call.id) :
              old.proposalId = call.values.proposalId
                  => /\ o.result.code = "OK"
                     /\ \A f \in {"type", "orderIndex", "heading", "content"} :
                            Overwritten(o.result.section, call.values, f)
                     /\ o.result.section.createdAt = call.values.createdAt
                     /\ o.result.section.id = old.id
                     /\ o.result.section.proposalId = old.proposalId
                     /\ o.proposals = proposals
                     /\ o.sections = [i \in DOMAIN sections |->
                            IF sections[i] = old THEN o.result.section
                            ELSE sections[i]])

----------------------------------------------------------------------------
(* C13 *)

\* the first call: the owner of a stored section's proposal can name the
\* section, its deleteSection with the section's id and proposalId goes on
\* to its delete, and the delete gives back the stored section with the
\* input's id and proposalId and removes it alone
FirstDeleteRemoves ==
    /\ \A i \in DOMAIN sections, u \in Users :
          Owns(u, sections[i].proposalId)
              => /\ Has(sections[i], "id")
                 /\ deleteSectionHandler(u,
                        [id |-> sections[i].id,
                         proposalId |-> sections[i].proposalId]).result = Awaiting
    /\ EveryAwaited("deleteSection", "delete", LAMBDA call, o :
          \A row \in StoredSections(call.id) :
              row.proposalId = call.proposalId
                  => /\ o.result = Returned([section |-> row])
                     /\ o.next = Done
                     /\ o.proposals = proposals
                     /\ o.sections = SelectSeq(sections, LAMBDA other : other # row))

\* the second call: with a section id that is not, or no more, stored, it
\* fails at the select of the proposal or goes on to its delete, and the
\* delete fails and changes nothing
SecondDeleteMisses ==
    \A id \in CallerSectionIds \ StoredSectionIds, q \in KnownProposalIds,
       u \in Users :
        \A o \in {deleteSectionHandler(u, [id |-> id, proposalId |-> q])} :
            /\ Untouched(o)
            /\ IF Owns(u, q)
               THEN /\ o.result = Awaiting
                    /\ Refused(deleteSectionDelete(o.next), SectionNotFound)
               ELSE Refused(o, ProposalNotFound)

\* C13: for a section stored under a proposal the caller owns, the delete of
\* a deleteSection invocation with the section's (id, proposalId) returns
\* the section as it was stored and removes exactly that section; and once
\* it is removed, every deleteSection invocation with the same
\* (id, proposalId) fails with NOT_FOUND and leaves both tables as they are.
C13_DeleteSectionTwice == FirstDeleteRemoves /\ SecondDeleteMisses

----------------------------------------------------------------------------
(* C14 *)

\* C14: as long as no stored proposal has the id P (so after P's owner
\* deleted it, until a proposal with the id P is created again), every
\* saveSection invocation with proposalId P and no section id, by P's former
\* owner or by anyone else, fails with NOT_FOUND "Proposal not found." at the
\* select of the proposal, issues no insert and leaves both tables as they
\* are.
C14_NoSaveUnderDeletedProposal ==
    \A u \in Users :
        EverySave(u, LAMBDA valid, raw, o :
            (valid /\ ~Has(raw, "id") /\ raw.proposalId \notin Ids(proposals))
                => Refused(o, ProposalNotFound))

\* two store calls have written and the store is empty: a proposal was
\* created and deleted; and a saveSection of either identity under any id a
\* caller can name is refused
C14_Witness ==
    /\ writes = MaxWrites - 2
    /\ proposals = {} /\ sections = <<>>
    /\ \A u \in Users, id \in KnownProposalIds :
          Refused(saveSectionHandler(u,
              [proposalId |-> id, orderIndex |-> Num(1, 1), content |-> "c1"]),
              ProposalNotFound)

----------------------------------------------------------------------------
(* C15 *)

\* the input carries an empty title
EmptyTitle(raw) == Has(raw, "title") /\ raw.title = EmptyString

\* the input carries an empty content, or an order index that is no positive
\* integer
MalformedSection(raw) ==
    \/ Has(raw, "content") /\ raw.content = EmptyString
    \/ Has(raw, "orderIndex")
          /\ (raw.orderIndex.num <= 0 \/ raw.orderIndex.num % raw.orderIndex.den # 0)

\* C15: createProposal with an empty title and saveSection with an empty
\* content or with an order index that is zero, negative or no integer fail
\* with the validation failure before any store call and leave both tables
\* as they are, whoever calls; saveSection by the owner of the input's
\* proposalId with order index 1, a content and no section id passes the
\* select of the proposal and goes on to its insert, which, while the caller
\* owns the proposal, succeeds and stores the section it returns.
C15_MalformedInputRejected ==
    /\ \A ctx \in Contexts :
          /\ EveryCreate(ctx, LAMBDA valid, raw, o :
                EmptyTitle(raw) => Refused(o, BadRequest))
          /\ EverySave(ctx, LAMBDA valid, raw, o :
                MalformedSection(raw) => Refused(o, BadRequest))
    /\ \A r \in proposals :
          EverySave(r.userId, LAMBDA valid, raw, o :
              (/\ Has(raw, "proposalId") /\ raw.proposalId = r.id
               /\ ~Truthy(raw, "id")
               /\ Has(raw, "orderIndex") /\ raw.orderIndex = Num(1, 1)
               /\ Has(raw, "content") /\ raw.content # EmptyString)
                  => /\ o.result = Awaiting /\ o.next.await = "proposal"
                     /\ o.next.input.orderIndex = Num(1, 1))
    /\ EveryAwaited("saveSection", "proposal", LAMBDA call, o :
          (call.input.orderIndex = Num(1, 1) /\ ~Truthy(call.input, "id"))
              => /\ o.result = Awaiting /\ o.next.await = "insert"
                 /\ o.next.values.orderIndex = Num(1, 1))
    /\ EveryAwaited("saveSection", "insert", LAMBDA call, o :
          (call.values.orderIndex = Num(1, 1)
                /\ Owns(call.ctx, call.values.proposalId))
              => /\ o.result.code = "OK"
                 /\ o.sections = Append(sections, o.result.section))

\* the proposal p1 is stored, its owner's saveSection under it is refused
\* with order index 0 and with order index 3/2, and the owner's saveSection
\* with order index 1 awaits its insert, which succeeds
C15_Witness ==
    \E r \in proposals : \E call \in Awaits("saveSection", "insert") :
        /\ r.id = "p1"
        /\ Refused(saveSectionHandler(r.userId,
              [proposalId |-> "p1", orderIndex |-> Num(0, 1), content |-> "c1"]),
              BadRequest)
        /\ Refused(saveSectionHandler(r.userId,
              [proposalId |-> "p1", orderIndex |-> Num(3, 2), content |-> "c1"]),
              BadRequest)
        /\ call.ctx = r.userId /\ call.values.proposalId = "p1"
        /\ call.values.orderIndex = Num(1, 1)
        /\ saveSectionInsert(call).result.code = "OK"

----------------------------------------------------------------------------
(* C16 *)

\* C16: whatever another updateProposal invocation has written to the row
\* since this one selected it, the update of this invocation succeeds while
\* the row is stored: it stores and returns the row as it is by then with
\* each field this invocation supplies at its value and updatedAt at the time
\* it read, and with every other field, those an earlier write supplied too,
\* as stored; no other proposal changes.
C16_LastWriteWins ==
    EveryAwaited("updateProposal", "update", LAMBDA call, o :
        /\ o.result.code = "OK"
        /\ o.next = Done
        /\ \A r \in proposals :
              (r.id = call.id /\ r.userId = call.ctx)
                  => \E p \in {o.result.proposal} :
                        /\ Patched(r, call.set, p)
                        /\ p.updatedAt = call.set.updatedAt
                        /\ p.id = r.id /\ p.userId = r.userId
                        /\ p.createdAt = r.createdAt
                        /\ o.proposals = (proposals \ {r}) \cup {p})

\* two invocations of the owner have selected the same row and await their
\* updates, one with the title alone, one with status and estimated value:
\* when the second writes and then the first, both succeed, and the row ends
\* with the title of the last write and the status and the estimated value
\* of the earlier one
C16_Witness ==
    \E first, last \in Awaits("updateProposal", "update") : \E r \in proposals :
        /\ r.id = first.id /\ r.userId = first.ctx
        /\ r.id = last.id /\ r.userId = last.ctx
        /\ Strip(first.set, MutableFields) = [status |-> "b", estimatedValue |-> 2500]
        /\ Strip(last.set, MutableFields) = [title |-> "t2"]
        /\ r.title = "t1" /\ r.status = "a" /\ ~Has(r, "estimatedValue")
        /\ \E o \in {updateProposalUpdate(first)} :
              /\ o.result.code = "OK" /\ o.result.proposal.title = "t1"
              /\ \E p \in UpdatedProposals(o.proposals, last.id, last.ctx, last.set) :
                    p.title = "t2" /\ p.status = "b" /\ p.estimatedValue = 2500

----------------------------------------------------------------------------
(* C18 *)

\* C18: an updateProposal invocation that supplies a field and reports
\* success returns a proposal, and that proposal is stored, also when a
\* deleteProposal ran between its select and its update.
C18_SuccessReturnsStoredRow ==
    EveryAwaited("updateProposal", "update", LAMBDA call, o :
        o.result.code = "OK"
            => Has(o.result, "proposal") /\ o.result.proposal \in o.proposals)

----------------------------------------------------------------------------
(* C17 *)

\* C17: every section a getProposalWithSections invocation returns to an
\* identity was inserted by a saveSection invocation of that identity.
C17_ReturnedSectionsAreOwn ==
    EveryAwaited("getProposalWithSections", "select", LAMBDA call, o :
        o.result.code = "OK"
            => \A i \in DOMAIN sections :
                  sections[i] \in Range(o.result.sections) => saver[i] = call.ctx)

----------------------------------------------------------------------------
(* C19 *)

\* the stored proposals of an identity: all it would find in a store that
\* holds nothing of anyone else
OwnProposals(u) == {r \in proposals : r.userId = u}

\* C19: what an invocation gives back to an identity is what it would give
\* back if the store held that identity's proposals and sections alone: the
\* insert of a createProposal with an id that none of its own proposals has
\* succeeds with the row it inserts, whether or not another identity's
\* proposal has the id; an update, delete or get of an id that none of its
\* own proposals has is not found; a list gives its own proposals.
C19_NonInterference ==
    /\ EveryAwaited("createProposal", "insert", LAMBDA call, o :
          call.values.id \notin Ids(OwnProposals(call.ctx))
              => o.result = Returned([proposal |-> call.values]))
    /\ \A u \in Users :
        /\ EveryUpdate(u, LAMBDA valid, raw, o :
              (valid /\ raw.id \notin Ids(OwnProposals(u)))
                  => o.result = ProposalNotFound)
        /\ EveryDelete(u, LAMBDA valid, raw, o :
              (valid /\ raw.id \notin Ids(OwnProposals(u)))
                  => o.result = ProposalNotFound)
        /\ EveryList(u, LAMBDA valid, raw, o :
              o.result = Returned([proposals |-> OwnProposals(u)]))
        /\ EveryGet(u, LAMBDA valid, raw, o :
              IF valid /\ raw.id \in Ids(OwnProposals(u))
              THEN o.result = Awaiting
              ELSE valid => o.result = ProposalNotFound)

----------------------------------------------------------------------------
(* C20 *)

\* C20: in every reachable state no two stored proposals have the same id;
\* and the insert of a createProposal invocation whose row carries the id of
\* a stored proposal, of the caller or of anyone else, fails and leaves both
\* tables as they are; no step of createProposal changes or removes a stored
\* proposal.
C20_ProposalIdsDistinct ==
    /\ \A r1, r2 \in proposals : r1.id = r2.id => r1 = r2
    /\ \A u \in Users :
          EveryCreate(u, LAMBDA valid, raw, o : Untouched(o))
    /\ EveryAwaited("createProposal", "insert", LAMBDA call, o :
          /\ proposals \subseteq o.proposals
          /\ call.values.id \in Ids(proposals)
                => o.result.code # "OK" /\ Untouched(o))

\* a proposal with the id p1 is stored, and the createProposal invocation of
\* another identity with the id p1 awaits its insert, which fails
C20_Witness ==
    \E r \in proposals : \E call \in Awaits("createProposal", "insert") :
        /\ r.id = "p1" /\ call.values.id = "p1" /\ call.ctx # r.userId
        /\ Refused(createProposalInsert(call), EngineError)


====
